---- MODULE Spec2Model ----
(***************************************************************************)
(* A model of 0x02-redis_basic: exercise.py (the Cache class over Redis    *)
(* with the count_calls and call_history decorators and replay) and web.py *)
(* (get_page and the cache_with_expiration decorator over a module-level   *)
(* dict).                                                                  *)
(*                                                                         *)
(* Python values are records tagged with their type; a bytes object is     *)
(* shown by its ASCII text.  Redis holds byte strings and lists of byte    *)
(* strings: every value written is encoded, every value read is bytes.     *)
(***************************************************************************)
EXTENDS Integers, Sequences, FiniteSets, TLC

\* ------------------------------------------------------------- bounds

\* Number of UUIDs the generator can hand out: store calls in one run.
MaxCalls == 2
\* Integers that the text <-> integer conversions range over.
MaxInt == 12
\* Concurrent callers of Cache.store.
NumCallers == 2
\* Calls of the wrapped get_page in one run.
MaxFetches == 3
\* The clock stops at this time.
MaxTime == 4
\* The decorator's argument: seconds before the cached result expires.
expiration == 2

\* ------------------------------------------------------ Python values

PyStr(s) == [kind |-> "str", s |-> s]
PyBytes(s) == [kind |-> "bytes", s |-> s]
PyInt(n) == [kind |-> "int", n |-> n]
\* A float with one decimal place, kept as its number of tenths.
PyFloat(t) == [kind |-> "float", tenths |-> t]
PyNone == [kind |-> "None"]

Digit == <<"0", "1", "2", "3", "4", "5", "6", "7", "8", "9">>

\* repr() of an integer: its decimal digits, with a sign when negative.
RECURSIVE IntStr(_)
IntStr(n) ==
    IF n < 0 THEN "-" \o IntStr(-n)
    ELSE IF n < 10 THEN Digit[n + 1]
    ELSE IntStr(n \div 10) \o Digit[(n % 10) + 1]

\* repr() of a float with one decimal place.
FloatStr(t) ==
    IF t < 0 THEN "-" \o IntStr((-t) \div 10) \o "." \o IntStr((-t) % 10)
    ELSE IntStr(t \div 10) \o "." \o IntStr(t % 10)

IntRange == (-MaxInt)..MaxInt

\* Whether int(text) succeeds, and its value.
IsIntText(s) == \E n \in IntRange : IntStr(n) = s
IntOfText(s) == CHOOSE n \in IntRange : IntStr(n) = s

\* repr() of a payload, as str(args) shows it inside the argument tuple.
Repr(v) ==
    CASE v.kind = "str" -> "'" \o v.s \o "'"
      [] v.kind = "bytes" -> "b'" \o v.s \o "'"
      [] v.kind = "int" -> IntStr(v.n)
      [] v.kind = "float" -> FloatStr(v.tenths)
      [] OTHER -> "None"

\* str(args) for args = (data,): a one-element tuple.
StrArgs(data) == "(" \o Repr(data) \o ",)"

\* What the Redis client sends for a value: bytes as they are, text as its
\* UTF-8 bytes, numbers as the bytes of their repr.
Encode(v) ==
    CASE v.kind = "bytes" -> v.s
      [] v.kind = "str" -> v.s
      [] v.kind = "int" -> IntStr(v.n)
      [] v.kind = "float" -> FloatStr(v.tenths)

\* The payloads store() is called with.
Payloads ==
    {PyStr("foo"), PyStr(""), PyBytes("foo"), PyInt(5), PyFloat(15)}

\* ------------------------------------------------------------- Redis

StringEntry(b) == [type |-> "string", val |-> b]
ListEntry(items) == [type |-> "list", items |-> items]

\* SET key value
RedisSet(d, key, b) ==
    [k \in DOMAIN d \cup {key} |-> IF k = key THEN StringEntry(b) ELSE d[k]]

\* GET key: the bytes, or None for a missing key.
RedisGet(d, key) ==
    IF key \in DOMAIN d THEN PyBytes(d[key].val) ELSE PyNone

\* INCR key: a missing key counts from 0.
\* An INCR that counts down.
RedisIncr_down(d, key) ==
    LET old == IF key \in DOMAIN d THEN IntOfText(d[key].val) ELSE 0
    IN  RedisSet(d, key, IntStr(old - 1))

RedisIncr(d, key) ==
    LET old == IF key \in DOMAIN d THEN IntOfText(d[key].val) ELSE 0
    IN  RedisSet(d, key, IntStr(old + 1))

\* RPUSH key value
RedisRpush(d, key, b) ==
    LET old == IF key \in DOMAIN d THEN d[key].items ELSE <<>>
    IN  [k \in DOMAIN d \cup {key} |->
            IF k = key THEN ListEntry(Append(old, b)) ELSE d[k]]

\* LRANGE key 0 -1
RedisLrange(d, key) ==
    IF key \in DOMAIN d THEN d[key].items ELSE <<>>

\* FLUSHDB
RedisFlushdb == <<>>

\* ------------------------------------------------------------- state

VARIABLES
    db,         \* the Redis database: key -> entry
    issued,     \* the UUIDs uuid4() has returned
    calls,      \* history: the store calls made since the last flush
    result,     \* the outcome of the last operation
    pc,         \* concurrent callers: where each is in its store call
    arg,        \* concurrent callers: the payload of each call
    ret,        \* concurrent callers: the key each call generated
    inBy,       \* history: the caller that appended each inputs entry
    outBy,      \* history: the caller that appended each outputs entry
    cache,      \* web.py's module-level dict: key -> page text or tuple
    now,        \* time.time(), in whole seconds
    last,       \* the outcome of the last call of the wrapped get_page
    nOk,        \* history: per URL, the calls that returned
    nErr,       \* history: per URL, the calls that raised
    pageAt,     \* history: per URL, when get_page wrote the page (-1: never)
    thr         \* concurrent callers of the wrapped get_page: their locals

cacheVars == <<db, issued, calls, result, pc, arg, ret, inBy, outBy>>
webVars == <<cache, now, last, nOk, nErr, pageAt, thr>>
vars == <<cacheVars, webVars>>

\* ------------------------------------------------------ exercise.py

Callers == 1..NumCallers

QualName == "Cache.store"
InputsKey == QualName \o ":inputs"
OutputsKey == QualName \o ":outputs"

\* The i-th identifier uuid4() can return.
UuidName(i) == "uuid-" \o IntStr(i)
Uuids == {UuidName(i) : i \in 1..MaxCalls}

\* str(x) of a returned key: the text itself.
PyToStr(v) == IF v.kind = "str" THEN v.s ELSE Repr(v)

Outcome(d, exc, r) == [db |-> d, exc |-> exc, ret |-> r]

\* A store that writes the text of its arguments in place of the payload.
store_writes_args(d, data, generate, fails) ==
    IF fails THEN Outcome(d, "ConnectionError", PyNone)
    ELSE Outcome(RedisSet(d, generate, StrArgs(data)), "", PyStr(generate))

\* Cache.store's body: write data under the generated key and return the
\* key; a failing SET raises out of the method.
store(d, data, generate, fails) ==
    IF fails THEN Outcome(d, "ConnectionError", PyNone)
    ELSE Outcome(RedisSet(d, generate, Encode(data)), "", PyStr(generate))

\* call_history's wrapper around store.
call_history(d, data, generate, fails) ==
    LET d1 == RedisRpush(d, InputsKey, StrArgs(data))
        r == store(d1, data, generate, fails)
    IN  IF r.exc # "" THEN r
        ELSE Outcome(RedisRpush(r.db, OutputsKey, PyToStr(r.ret)), "", r.ret)

\* A count_calls that counts a call only once it has returned.
count_calls_after(d, data, generate, fails) ==
    LET r == call_history(d, data, generate, fails)
    IN  IF r.exc # "" THEN r ELSE Outcome(RedisIncr(r.db, QualName), "", r.ret)

\* count_calls' wrapper around call_history's wrapper.
count_calls(d, data, generate, fails) ==
    call_history(RedisIncr(d, QualName), data, generate, fails)

\* Cache.get: the raw bytes, or fn applied to them.  fn is one of None,
\* int, and a UTF-8 decoder (lambda d: d.decode("utf-8")).
ApplyFn(fn, value) ==
    CASE fn = "int" ->
            IF value.kind = "None" THEN [exc |-> "TypeError", ret |-> PyNone]
            ELSE IF IsIntText(value.s)
                 THEN [exc |-> "", ret |-> PyInt(IntOfText(value.s))]
                 ELSE [exc |-> "ValueError", ret |-> PyNone]
      [] fn = "decode" ->
            IF value.kind = "None"
            THEN [exc |-> "AttributeError", ret |-> PyNone]
            ELSE [exc |-> "", ret |-> PyStr(value.s)]

get(d, key, fn) ==
    LET value == RedisGet(d, key)
    IN  IF fn = "None" THEN [exc |-> "", ret |-> value]
        ELSE ApplyFn(fn, value)

get_int(d, key) == get(d, key, "int")

\* A get_str that decodes whatever GET returned.
get_str_unguarded(d, key) ==
    LET value == RedisGet(d, key)
    IN  IF value.kind = "None" THEN [exc |-> "AttributeError", ret |-> PyNone]
        ELSE [exc |-> "", ret |-> PyStr(value.s)]

\* Cache.get_str: decode when the value is truthy, else None.
get_str(d, key) ==
    LET value == RedisGet(d, key)
    IN  IF value.kind # "None" /\ value.s # ""
        THEN [exc |-> "", ret |-> PyStr(value.s)]
        ELSE [exc |-> "", ret |-> PyNone]

\* replay: the header, then one line per zipped (input, output) pair.
replay(d) ==
    LET inp_m == RedisLrange(d, InputsKey)
        outp_m == RedisLrange(d, OutputsKey)
        calls_number == Len(inp_m)
        times_str == IF calls_number # 1 THEN "times" ELSE "time"
        n == IF Len(inp_m) < Len(outp_m) THEN Len(inp_m) ELSE Len(outp_m)
    IN  <<QualName \o " was called " \o IntStr(calls_number) \o " "
            \o times_str \o ":">>
        \o [i \in 1..n |->
              QualName \o "(*" \o inp_m[i] \o ") -> " \o outp_m[i]]

Fns == {"None", "int", "decode"}
GetKeys == Uuids \cup {QualName}

Result(op, key, fn, exc, r, lines) ==
    [op |-> op, key |-> key, fn |-> fn, exc |-> exc, ret |-> r,
     lines |-> lines]

\* ------------------------------------------------------------ web.py

PyTuple(count, timestamp) ==
    [kind |-> "tuple", count |-> count, timestamp |-> timestamp]

\* cache[key] = value
DictSet(c, key, value) ==
    [k \in DOMAIN c \cup {key} |-> IF k = key THEN value ELSE c[k]]

\* f"count:{url}"
CountKey(url) == "count:" \o url

\* The URLs get_page is called with.  The second is itself the key under
\* which the wrapper counts the first.
Urls == {"u", CountKey("u")}

\* What requests.get(url) does: a response with its text, or an exception.
Response(text) == [exc |-> "", text |-> text]
RequestFails(exc) == [exc |-> exc, text |-> ""]
Responses ==
    {Response("A"), Response("B"), RequestFails("ConnectionError"),
     RequestFails("Timeout")}
RequestExceptions == {r.exc : r \in Responses} \ {""}

Fetched(c, exc, r, fetched, branch) ==
    [cache |-> c, exc |-> exc, ret |-> r, fetched |-> fetched,
     branch |-> branch]

\* A get_page that answers a failed request with an empty page, cached.
get_page_caches_failure(c, url, resp) ==
    IF url \in DOMAIN c THEN Fetched(c, "", c[url], FALSE, "")
    ELSE Fetched(DictSet(c, url, PyStr(resp.text)), "", PyStr(resp.text),
                 TRUE, "")

\* get_page: the cached page, or the text of a new request, cached.
get_page(c, url, resp) ==
    IF url \in DOMAIN c THEN Fetched(c, "", c[url], FALSE, "")
    ELSE IF resp.exc # "" THEN Fetched(c, resp.exc, PyNone, TRUE, "")
    ELSE Fetched(DictSet(c, url, PyStr(resp.text)), "", PyStr(resp.text),
                 TRUE, "")

\* time.time() - timestamp > expiration
Expired(t, timestamp) == t - timestamp > expiration

\* An entry that keeps the count as it was on a hit.
HitEntry_no_count(count, timestamp) == PyTuple(count, timestamp)

\* The entries the wrapper writes under key: on a hit, after the expired
\* entry's refresh, and on the first call.
HitEntry(count, timestamp) == PyTuple(count + 1, timestamp)
RefreshedEntry(count, t) == PyTuple(count + 1, t)
FirstEntry(t) == PyTuple(1, t)

\* count, timestamp = cache[key] with a page text under key: the unpacking
\* raises unless the text has two characters, and then the subtraction does.
UnpackError(text) == IF Len(text) = 2 THEN "TypeError" ELSE "ValueError"

\* The wrapper's hit branch: count the access, return cache[url].
HitBranch(c, url, count, timestamp) ==
    LET c1 == DictSet(c, CountKey(url), HitEntry(count, timestamp))
    IN  IF url \in DOMAIN c1 THEN Fetched(c1, "", c1[url], FALSE, "hit")
        ELSE Fetched(c1, "KeyError", PyNone, FALSE, "hit")

\* The wrapper's branches that call func = get_page and, when it returns,
\* write the entry under key: for an expired entry and for no entry.
ExpiredBranch(c, url, count, t, resp) ==
    LET r == get_page(c, url, resp)
    IN  IF r.exc # "" THEN [r EXCEPT !.branch = "expired"]
        ELSE Fetched(DictSet(r.cache, CountKey(url), RefreshedEntry(count, t)),
                     "", r.ret, r.fetched, "expired")

FirstBranch(c, url, t, resp) ==
    LET r == get_page(c, url, resp)
    IN  IF r.exc # "" THEN [r EXCEPT !.branch = "first"]
        ELSE Fetched(DictSet(r.cache, CountKey(url), FirstEntry(t)), "",
                     r.ret, r.fetched, "first")

\* A wrapper whose hit branch makes a new request for the page.
wrapper_hit_requests(c, url, t, resp) ==
    LET key == CountKey(url)
    IN  IF key \in DOMAIN c
        THEN IF c[key].kind # "tuple"
             THEN Fetched(c, UnpackError(c[key].s), PyNone, FALSE, "unpack")
             ELSE IF Expired(t, c[key].timestamp)
                  THEN ExpiredBranch(c, url, c[key].count, t, resp)
                  ELSE IF resp.exc # ""
                       THEN Fetched(c, resp.exc, PyNone, TRUE, "hit")
                       ELSE Fetched(
                              DictSet(DictSet(c, url, PyStr(resp.text)), key,
                                      HitEntry(c[key].count, c[key].timestamp)),
                              "", PyStr(resp.text), TRUE, "hit")
        ELSE FirstBranch(c, url, t, resp)

\* cache_with_expiration(expiration)'s wrapper around func = get_page, with
\* t the time and resp what a request would produce.
wrapper(c, url, t, resp) ==
    LET key == CountKey(url)
    IN  IF key \in DOMAIN c
        THEN IF c[key].kind # "tuple"
             THEN Fetched(c, UnpackError(c[key].s), PyNone, FALSE, "unpack")
             ELSE IF Expired(t, c[key].timestamp)
                  THEN ExpiredBranch(c, url, c[key].count, t, resp)
                  ELSE HitBranch(c, url, c[key].count, c[key].timestamp)
        ELSE FirstBranch(c, url, t, resp)

\* The Access Counter of a URL: the count of the tuple under its key.
AccessCounter(c, url) ==
    IF CountKey(url) \in DOMAIN c /\ c[CountKey(url)].kind = "tuple"
    THEN c[CountKey(url)].count
    ELSE 0

NoResponse == Response("")

\* What is kept of a call: its URL and time, what it raised or returned,
\* whether it made a request and what the request produced, and, from the
\* state it started in, the Access Counter, the entry under the URL, the
\* time the page was written and whether the call before it was a failed
\* request for the same URL.
LastCall(url, at, r, resp, c, afterFailure) ==
    [url |-> url, at |-> at, exc |-> r.exc, ret |-> r.ret,
     fetched |-> r.fetched, branch |-> r.branch,
     response |-> IF r.fetched THEN resp ELSE NoResponse,
     counterBefore |-> AccessCounter(c, url),
     cachedBefore |-> IF url \in DOMAIN c THEN c[url] ELSE PyNone,
     pageAtBefore |-> pageAt[url],
     afterFailure |-> afterFailure,
     changed |-> (r.cache # c)]

NoCall ==
    [url |-> "", at |-> 0, exc |-> "", ret |-> PyNone, fetched |-> FALSE,
     branch |-> "none", response |-> NoResponse, counterBefore |-> 0,
     cachedBefore |-> PyNone, pageAtBefore |-> -1, afterFailure |-> FALSE,
     changed |-> FALSE]

RECURSIVE SumOver(_, _)
SumOver(f, S) ==
    IF S = {} THEN 0
    ELSE LET x == CHOOSE y \in S : TRUE IN f[x] + SumOver(f, S \ {x})

\* The calls of the wrapped get_page made so far.
CallsMade == SumOver(nOk, Urls) + SumOver(nErr, Urls)

\* A caller's locals: where it is, its URL, the unpacked count and
\* timestamp, get_page's result and the wrapper branch that called func.
Idle ==
    [pc |-> "idle", url |-> "", count |-> 0, timestamp |-> 0,
     result |-> PyNone, branch |-> ""]

WebInit ==
    /\ cache = <<>>
    /\ now = 0
    /\ last = NoCall
    /\ nOk = [u \in Urls |-> 0]
    /\ nErr = [u \in Urls |-> 0]
    /\ pageAt = [u \in Urls |-> -1]
    /\ thr = [t \in Callers |-> Idle]

Init ==
    /\ WebInit
    /\ db = RedisFlushdb
    /\ issued = {}
    /\ calls = <<>>
    /\ result = Result("init", "", "None", "", PyNone, <<>>)
    /\ pc = [p \in Callers |-> "idle"]
    /\ arg = [p \in Callers |-> PyNone]
    /\ ret = [p \in Callers |-> ""]
    /\ inBy = <<>>
    /\ outBy = <<>>

\* Cache.__init__: a new Cache flushes the database.
CacheInit ==
    /\ db' = RedisFlushdb
    /\ calls' = <<>>
    /\ result' = Result("init", "", "None", "", PyNone, <<>>)
    /\ UNCHANGED <<webVars, issued, pc, arg, ret, inBy, outBy>>

\* uuid4(): an identifier never returned before.  The identifiers are
\* interchangeable, so the generator hands them out in order.
uuid4(used) == UuidName(Cardinality(used) + 1)

\* One whole call of the decorated Cache.store.
Store(data, generate, fails) ==
    /\ Cardinality(issued) < MaxCalls
    /\ generate = uuid4(issued)
    /\ LET r == count_calls(db, data, generate, fails)
       IN  /\ db' = r.db
           /\ result' = Result("store", "", "None", r.exc, r.ret, <<>>)
    /\ issued' = issued \cup {generate}
    /\ calls' = Append(calls, [arg |-> data, key |-> generate, ok |-> ~fails])
    /\ UNCHANGED <<webVars, pc, arg, ret, inBy, outBy>>

\* A get that is counted like store.
Get_counted(key, fn) ==
    /\ LET r == get(db, key, fn)
       IN  result' = Result("get", key, fn, r.exc, r.ret, <<>>)
    /\ db' = RedisIncr(db, QualName)
    /\ UNCHANGED <<webVars, issued, calls, pc, arg, ret, inBy, outBy>>

Get(key, fn) ==
    /\ LET r == get(db, key, fn)
       IN  result' = Result("get", key, fn, r.exc, r.ret, <<>>)
    /\ UNCHANGED <<webVars, db, issued, calls, pc, arg, ret, inBy, outBy>>

GetInt(key) ==
    /\ LET r == get_int(db, key)
       IN  result' = Result("get_int", key, "int", r.exc, r.ret, <<>>)
    /\ UNCHANGED <<webVars, db, issued, calls, pc, arg, ret, inBy, outBy>>

GetStr(key) ==
    /\ LET r == get_str(db, key)
       IN  result' = Result("get_str", key, "None", r.exc, r.ret, <<>>)
    /\ UNCHANGED <<webVars, db, issued, calls, pc, arg, ret, inBy, outBy>>

Replay ==
    /\ result' = Result("replay", "", "None", "", PyNone, replay(db))
    /\ UNCHANGED <<webVars, db, issued, calls, pc, arg, ret, inBy, outBy>>

Next ==
    \/ CacheInit
    \/ \E data \in Payloads, fails \in BOOLEAN :
          Store(data, uuid4(issued), fails)
    \/ \E key \in GetKeys, fn \in Fns : Get(key, fn)
    \/ \E key \in GetKeys : GetInt(key)
    \/ \E key \in GetKeys : GetStr(key)
    \/ Replay

Spec == Init /\ [][Next]_vars

\* --------------------------------------- concurrent callers of store
\* Each caller makes one call of the decorated store; every Redis command
\* is atomic and the callers interleave between commands.

\* The caller enters count_calls' wrapper.
Call(p, data) ==
    /\ pc[p] = "idle"
    /\ pc' = [pc EXCEPT ![p] = "incr"]
    /\ arg' = [arg EXCEPT ![p] = data]
    /\ UNCHANGED <<webVars, db, issued, calls, result, ret, inBy, outBy>>

\* count_calls: self._redis.incr(key_name)
IncrStep(p) ==
    /\ pc[p] = "incr"
    /\ db' = RedisIncr(db, QualName)
    /\ pc' = [pc EXCEPT ![p] = "inputs"]
    /\ UNCHANGED <<webVars, issued, calls, result, arg, ret, inBy, outBy>>

\* call_history: self._redis.rpush(inp_m, data)
\* A history wrapper that goes on to the call without recording the input.
InputsStep_skipped(p) ==
    /\ pc[p] = "inputs"
    /\ pc' = [pc EXCEPT ![p] = "set"]
    /\ UNCHANGED <<webVars, db, issued, calls, result, arg, ret, inBy, outBy>>

InputsStep(p) ==
    /\ pc[p] = "inputs"
    /\ db' = RedisRpush(db, InputsKey, StrArgs(arg[p]))
    /\ inBy' = Append(inBy, p)
    /\ pc' = [pc EXCEPT ![p] = "set"]
    /\ UNCHANGED <<webVars, issued, calls, result, arg, ret, outBy>>

\* store's body: the key is generated and the value written.
SetStep(p, fails) ==
    /\ pc[p] = "set"
    /\ Cardinality(issued) < MaxCalls
    /\ LET r == store(db, arg[p], uuid4(issued), fails)
       IN  /\ db' = r.db
           /\ pc' = [pc EXCEPT ![p] = IF r.exc # "" THEN "raised"
                                      ELSE "outputs"]
           /\ ret' = [ret EXCEPT ![p] = IF r.exc # "" THEN "" ELSE r.ret.s]
    /\ issued' = issued \cup {uuid4(issued)}
    /\ UNCHANGED <<webVars, calls, result, arg, inBy, outBy>>

\* call_history: self._redis.rpush(outp_m, str(result))
OutputsStep(p) ==
    /\ pc[p] = "outputs"
    /\ db' = RedisRpush(db, OutputsKey, ret[p])
    /\ outBy' = Append(outBy, p)
    /\ pc' = [pc EXCEPT ![p] = "done"]
    /\ UNCHANGED <<webVars, issued, calls, result, arg, ret, inBy>>

ConcNext ==
    \/ \E p \in Callers, data \in Payloads : Call(p, data)
    \/ \E p \in Callers : IncrStep(p)
    \/ \E p \in Callers : InputsStep(p)
    \/ \E p \in Callers, fails \in BOOLEAN : SetStep(p, fails)
    \/ \E p \in Callers : OutputsStep(p)

ConcSpec == Init /\ [][ConcNext]_vars

\* ---------------------------------------------- the wrapped get_page

\* One whole call of get_page under cache_with_expiration(expiration).
FetchPage(url, resp) ==
    /\ CallsMade < MaxFetches
    /\ LET r == wrapper(cache, url, now, resp)
       IN  /\ cache' = r.cache
           /\ last' = LastCall(url, now, r, resp, cache,
                               last.url = url /\ last.response.exc # "")
           /\ nOk' = [nOk EXCEPT ![url] = @ + (IF r.exc = "" THEN 1 ELSE 0)]
           /\ nErr' = [nErr EXCEPT ![url] = @ + (IF r.exc = "" THEN 0 ELSE 1)]
           /\ pageAt' = [pageAt EXCEPT ![url] =
                            IF url \notin DOMAIN cache /\ url \in DOMAIN r.cache
                            THEN now ELSE @]
    /\ UNCHANGED <<cacheVars, now, thr>>

\* Time passes between calls.
Tick ==
    /\ now < MaxTime
    /\ now' = now + 1
    /\ UNCHANGED <<cacheVars, cache, last, nOk, nErr, pageAt, thr>>

WebNext ==
    \/ \E url \in Urls, resp \in Responses : FetchPage(url, resp)
    \/ Tick

WebSpec == Init /\ [][WebNext]_vars

\* ------------------------------- concurrent callers of the wrapped get_page
\* Each caller makes one call; the callers interleave between the
\* operations on the dict, and time may pass between any two of them.

Goto(t, label) == [thr EXCEPT ![t].pc = label]

\* url = args[0]; key = f"count:{url}"
Enter(t, url) ==
    /\ thr[t].pc = "idle"
    /\ thr' = [thr EXCEPT ![t].pc = "key_in", ![t].url = url]
    /\ UNCHANGED <<cacheVars, cache, now, last, nOk, nErr, pageAt>>

\* if key in cache
KeyIn(t) ==
    /\ thr[t].pc = "key_in"
    /\ thr' = IF CountKey(thr[t].url) \in DOMAIN cache
              THEN Goto(t, "unpack")
              ELSE [thr EXCEPT ![t].pc = "gp_in", ![t].branch = "first"]
    /\ UNCHANGED <<cacheVars, cache, now, last, nOk, nErr, pageAt>>

\* count, timestamp = cache[key]; if time.time() - timestamp > expiration
Unpack(t) ==
    /\ thr[t].pc = "unpack"
    /\ LET v == cache[CountKey(thr[t].url)]
       IN  thr' = IF v.kind # "tuple" THEN Goto(t, "raised")
                  ELSE [thr EXCEPT
                          ![t].count = v.count,
                          ![t].timestamp = v.timestamp,
                          ![t].branch = IF Expired(now, v.timestamp)
                                        THEN "expired" ELSE "hit",
                          ![t].pc = IF Expired(now, v.timestamp)
                                    THEN "gp_in" ELSE "hit_set"]
    /\ UNCHANGED <<cacheVars, cache, now, last, nOk, nErr, pageAt>>

\* get_page: if url in cache
GpIn(t) ==
    /\ thr[t].pc = "gp_in"
    /\ thr' = IF thr[t].url \in DOMAIN cache THEN Goto(t, "gp_read")
              ELSE Goto(t, "gp_request")
    /\ UNCHANGED <<cacheVars, cache, now, last, nOk, nErr, pageAt>>

\* get_page: return cache[url]
GpRead(t) ==
    /\ thr[t].pc = "gp_read"
    /\ thr' = [thr EXCEPT ![t].pc = "key_set",
                          ![t].result = cache[thr[t].url]]
    /\ UNCHANGED <<cacheVars, cache, now, last, nOk, nErr, pageAt>>

\* get_page: response = requests.get(url); result = response.text
GpRequest(t, resp) ==
    /\ thr[t].pc = "gp_request"
    /\ thr' = IF resp.exc # "" THEN Goto(t, "raised")
              ELSE [thr EXCEPT ![t].pc = "gp_set",
                               ![t].result = PyStr(resp.text)]
    /\ UNCHANGED <<cacheVars, cache, now, last, nOk, nErr, pageAt>>

\* get_page: cache[url] = result; return result
\* A get_page that returns the text without caching it.
GpSet_uncached(t) ==
    /\ thr[t].pc = "gp_set"
    /\ thr' = Goto(t, "key_set")
    /\ UNCHANGED <<cacheVars, cache, now, last, nOk, nErr, pageAt>>

GpSet(t) ==
    /\ thr[t].pc = "gp_set"
    /\ cache' = DictSet(cache, thr[t].url, thr[t].result)
    /\ thr' = Goto(t, "key_set")
    /\ UNCHANGED <<cacheVars, now, last, nOk, nErr, pageAt>>

\* cache[key] = (count + 1, time.time()) or (1, time.time()); return result
KeySet(t) ==
    /\ thr[t].pc = "key_set"
    /\ cache' = DictSet(cache, CountKey(thr[t].url),
                        IF thr[t].branch = "first" THEN FirstEntry(now)
                        ELSE RefreshedEntry(thr[t].count, now))
    /\ thr' = Goto(t, "done")
    /\ UNCHANGED <<cacheVars, now, last, nOk, nErr, pageAt>>

\* cache[key] = (count + 1, timestamp)
HitSet(t) ==
    /\ thr[t].pc = "hit_set"
    /\ cache' = DictSet(cache, CountKey(thr[t].url),
                        HitEntry(thr[t].count, thr[t].timestamp))
    /\ thr' = Goto(t, "hit_read")
    /\ UNCHANGED <<cacheVars, now, last, nOk, nErr, pageAt>>

\* return cache[url]
HitRead(t) ==
    /\ thr[t].pc = "hit_read"
    /\ thr' = IF thr[t].url \in DOMAIN cache
              THEN [thr EXCEPT ![t].pc = "done",
                               ![t].result = cache[thr[t].url]]
              ELSE Goto(t, "raised")
    /\ UNCHANGED <<cacheVars, cache, now, last, nOk, nErr, pageAt>>

WebConcNext ==
    \/ \E t \in Callers, url \in Urls : Enter(t, url)
    \/ \E t \in Callers : KeyIn(t)
    \/ \E t \in Callers : Unpack(t)
    \/ \E t \in Callers : GpIn(t)
    \/ \E t \in Callers : GpRead(t)
    \/ \E t \in Callers, resp \in Responses : GpRequest(t, resp)
    \/ \E t \in Callers : GpSet(t)
    \/ \E t \in Callers : KeySet(t)
    \/ \E t \in Callers : HitSet(t)
    \/ \E t \in Callers : HitRead(t)
    \/ Tick

WebConcSpec == Init /\ [][WebConcNext]_vars

\* --------------------------------------------- properties: exercise.py

\* The Call Counter: the integer Redis holds under the method's name.
CallCounter == IF QualName \in DOMAIN db THEN IntOfText(db[QualName].val) ELSE 0
InputsList == RedisLrange(db, InputsKey)
OutputsList == RedisLrange(db, OutputsKey)

\* The calls since the last flush that returned the key.
ReturnedCalls(key) == {i \in 1..Len(calls) : calls[i].ok /\ calls[i].key = key}
StoredPayload(key) == calls[CHOOSE i \in ReturnedCalls(key) : TRUE].arg

\* The last operation was get(key) with no decode function, for a key that
\* a store call returned.
GotStoredKey ==
    /\ result.op = "get"
    /\ result.fn = "None"
    /\ ReturnedCalls(result.key) # {}

\* C1 as stated: get(key) with no decode function returns the payload v
\* that store(v) was called with.
C1_GetReturnsPayload ==
    GotStoredKey => result.ret = StoredPayload(result.key)

\* C1 amended: get(key) with no decode function returns the byte string
\* Redis holds for v, which is v itself exactly when v is bytes.
C1_GetReturnsEncodedPayload ==
    GotStoredKey =>
        /\ result.exc = ""
        /\ result.ret = PyBytes(Encode(StoredPayload(result.key)))
        /\ (StoredPayload(result.key).kind = "bytes"
              => result.ret = StoredPayload(result.key))

C1_Witness ==
    /\ GotStoredKey
    /\ StoredPayload(result.key) = PyInt(5)
    /\ result.ret = PyBytes("5")

\* C2: the Call Counter equals the number of store calls made since the
\* last flush, the calls whose write failed included.
C2_CounterEqualsCalls == CallCounter = Len(calls)

C2_Witness ==
    /\ result.op = "store"
    /\ Len(calls) = MaxCalls
    /\ \E i \in 1..Len(calls) : ~calls[i].ok

\* C3 as stated: after n store calls both history lists have length n,
\* outputs[i] is the text of the i-th call's key and inputs[i] the text
\* of its arguments.
C3_HistoryMatchesCalls ==
    /\ Len(InputsList) = Len(calls)
    /\ Len(OutputsList) = Len(calls)
    /\ \A i \in 1..Len(calls) :
          /\ InputsList[i] = StrArgs(calls[i].arg)
          /\ OutputsList[i] = calls[i].key

\* C4 as stated: once every concurrent caller has returned, entry i of
\* inputs and entry i of outputs were appended by the same call.
C4_PairedAfterConcurrentCalls ==
    (\A p \in Callers : pc[p] = "done") =>
        /\ Len(inBy) = Len(outBy)
        /\ \A i \in 1..Len(inBy) : inBy[i] = outBy[i]

\* ------------------------------------- properties: exercise.py, reads

\* The line replay prints for one call.
CallLine(inp, out) == QualName \o "(*" \o inp \o ") -> " \o out

\* C11 as stated: replay prints a header with callsNumber = len(inputs),
\* then exactly callsNumber lines, the i-th pairing inputs[i] with
\* outputs[i].
C11_ReplayPrintsEveryCall ==
    result.op = "replay" =>
        /\ Len(result.lines) = 1 + Len(InputsList)
        /\ result.lines[1] =
              QualName \o " was called " \o IntStr(Len(InputsList)) \o " "
                \o (IF Len(InputsList) = 1 THEN "time" ELSE "times") \o ":"
        /\ Len(OutputsList) = Len(InputsList)
        /\ \A i \in 1..Len(InputsList) :
              result.lines[i + 1] = CallLine(InputsList[i], OutputsList[i])

\* C12: get_str on a key that is not in the store returns None and does
\* not raise.
C12_GetStrMissingIsNone ==
    (result.op = "get_str" /\ result.key \notin DOMAIN db) =>
        /\ result.exc = ""
        /\ result.ret = PyNone

C12_Witness ==
    /\ result.op = "get_str"
    /\ result.key \notin DOMAIN db
    /\ result.key \in issued
    /\ DOMAIN db # {}

\* C13 as stated: get_str of the key store(v) returned is v for every
\* text v, the empty text included, and get_str returns None only for a
\* key that is not in the store.
C13_GetStrReturnsText ==
    result.op = "get_str" =>
        /\ (ReturnedCalls(result.key) # {}
              /\ StoredPayload(result.key).kind = "str")
              => result.ret = StoredPayload(result.key)
        /\ result.ret = PyNone => result.key \notin DOMAIN db

\* C14 as stated: get and get_int on a key that is not in the store
\* return the absent value or fail with NotFound, whatever fn is.
C14_MissingKeyIsAbsentOrNotFound ==
    (result.op \in {"get", "get_int"} /\ result.key \notin DOMAIN db) =>
        \/ result.exc = "" /\ result.ret = PyNone
        \/ result.exc = "NotFound"


\* C16 as stated: after a store call whose SET failed, no outputs entry
\* was appended for that call and inputs and outputs have equal length.
C16_FailedWriteKeepsListsEqual ==
    (result.op = "store" /\ result.exc # "") =>
        /\ Len(OutputsList) =
              Cardinality({i \in 1..Len(calls) : calls[i].ok})
        /\ Len(InputsList) = Len(OutputsList)

\* C17 as stated: no step of store, get, get_int, get_str, replay or
\* Cache construction lowers the call counter.
C17_CounterNeverDecreases == [][CallCounter' >= CallCounter]_vars

\* C17: store, get, get_int, get_str and replay never lower the call
\* counter; constructing a Cache sets it back to 0.
C17_CounterResetOnlyByInit ==
    [][IF CacheInit THEN CallCounter' = 0
       ELSE CallCounter' >= CallCounter]_vars

C17_Witness ==
    /\ result.op \in {"get", "get_int", "get_str", "replay"}
    /\ Cardinality(issued) = 2
    /\ CallCounter = 1

\* Callers whose store call is at one of the given positions.
Past(labels) == Cardinality({p \in Callers : pc[p] \in labels})

ReadOps == {"get", "get_int", "get_str", "replay"}

\* C19: a step of get, get_int, get_str or replay, whether it returns
\* or raises, leaves the counter, both history lists and every stored
\* value as they were.
C19_ReadsLeaveStoreUnchanged == [][result'.op \in ReadOps => db' = db]_vars

C19_Witness ==
    /\ result.op = "get_int"
    /\ result.exc = "ValueError"
    /\ CallCounter = 2
    /\ Len(InputsList) > Len(OutputsList)

\* ----------------------------------------------- properties: web.py

\* The last call found a page for its URL that get_page wrote at t0.
PageWasCached == last.branch # "none" /\ last.pageAtBefore >= 0

\* C5 as stated: with the page written at t0, a call before t0 +
\* expiration is a hit that returns the page as first fetched, and a call
\* after t0 + expiration makes a new request and returns its text.
C5_HitBeforeTtlMissAfter ==
    PageWasCached =>
        /\ last.at < last.pageAtBefore + expiration =>
              /\ ~last.fetched
              /\ last.exc = ""
              /\ last.ret = last.cachedBefore
        /\ last.at > last.pageAtBefore + expiration =>
              /\ last.fetched
              /\ last.exc = "" => last.ret = PyStr(last.response.text)

\* C6: for each URL whose calls have all returned, the Access Counter
\* equals the number of those calls.
C6_CounterEqualsReturnedCalls ==
    \A u \in Urls : nErr[u] = 0 => AccessCounter(cache, u) = nOk[u]

\* A first miss at time 0, a hit within the TTL and a miss after it.
C6_Witness ==
    /\ last.url = "u"
    /\ last.branch = "expired"
    /\ last.at = expiration + 1
    /\ nOk["u"] = 3
    /\ nErr["u"] = 0

\* C7 as stated: once n concurrent calls for the same URL have all
\* returned, the Access Counter of the URL is n.
C7_CounterEqualsConcurrentCalls ==
    (\A t \in Callers : thr[t].pc = "done" /\ thr[t].url = "u") =>
        AccessCounter(cache, "u") = NumCallers

\* C8: a call that finds a cached page that has not expired makes no
\* request and returns the cached page.
C8_HitMakesNoRequest ==
    (PageWasCached /\ last.at < last.pageAtBefore + expiration) =>
        /\ ~last.fetched
        /\ last.exc = ""
        /\ last.ret = last.cachedBefore

C8_Witness ==
    /\ PageWasCached
    /\ last.at > last.pageAtBefore
    /\ last.at < last.pageAtBefore + expiration
    /\ last.branch = "hit"

\* C9 as stated: a call whose request fails leaves the Access Counter one
\* higher than it found it.
C9_FailedFetchIsCounted ==
    last.response.exc # "" =>
        AccessCounter(cache, last.url) = last.counterBefore + 1

\* C10: a failed request raises the request's own exception out of the
\* call and leaves the cache as it was, with no page for the URL, and the
\* call that follows it for the same URL makes a request again.
C10_FailurePropagatesUncached ==
    /\ last.response.exc # "" =>
          /\ last.exc = last.response.exc
          /\ ~last.changed
          /\ last.url \notin DOMAIN cache
    /\ last.afterFailure => last.fetched

C10_Witness ==
    /\ last.afterFailure
    /\ last.fetched
    /\ last.exc = ""
    /\ last.url \in DOMAIN cache

\* C15 as stated: a call made exactly expiration seconds after the page
\* was cached is a miss, so it makes the request.
C15_MissAtExactlyTtl ==
    (PageWasCached /\ last.at = last.pageAtBefore + expiration) =>
        /\ last.branch # "hit"
        /\ last.fetched

\* url has an access-count entry: the tuple wrapper writes under
\* "count:" + url.
HasCountEntry(url) ==
    /\ CountKey(url) \in DOMAIN cache
    /\ cache[CountKey(url)].kind = "tuple"

\* C20: whenever the access-count entry of a url exists, cache[url]
\* exists too, and no caller's hit branch raises on reading cache[url].
C20_CountEntryImpliesPage ==
    /\ \A url \in Urls : HasCountEntry(url) => url \in DOMAIN cache
    /\ \A t \in Callers : thr[t].pc = "raised" => thr[t].branch # "hit"

C20_Witness ==
    /\ \E t \in Callers : thr[t].pc = "done" /\ thr[t].branch = "hit"
    /\ \E t \in Callers : thr[t].pc = "done" /\ thr[t].branch = "first"

====
